---- MODULE Spec2Model ----
(***************************************************************************)
(* Prompt bot (promtme): the conversation controller of bot.py, the retry  *)
(* loop of call_deepseek, and the rate limiter and chunker of utils.py.    *)
(*                                                                         *)
(* Texts are sequences of one-character strings.  An optional value of     *)
(* user_data (a key that may be absent) is None == <<>> or Some(x).        *)
(* Updates are processed one at a time (Application.builder() is built     *)
(* without concurrent_updates, handlers are blocking), so at most one      *)
(* handler is in flight; it is suspended only inside call_deepseek.        *)
(* Sending a message (reply_text, send_message) is taken to succeed, as    *)
(* the presentation adapter's interface states; deleting and editing the   *)
(* status message may raise.                                               *)
(***************************************************************************)
EXTENDS Integers, Sequences, FiniteSets, TLC

\* ------------------------------------------------------------------ config.py
MAX_MESSAGE_LENGTH == 4096
DEEPSEEK_RETRY_ATTEMPTS == 3
RATE_LIMIT_REQUESTS_PER_MINUTE == 5
HISTORY_MAX_ITEMS == 5
\* result[:200] of the history preview (bot.py:322)
HISTORY_PREVIEW_LENGTH == 200
\* the window of RateLimiter.is_allowed, in seconds (utils.py:54)
RATE_WINDOW_SECONDS == 60

Category == {"image", "code", "video", "text"}

MAIN_MENU == "MAIN_MENU"
AWAITING_DESCRIPTION == "AWAITING_DESCRIPTION"
PROMPT_SHOWN == "PROMPT_SHOWN"
AWAITING_REFINEMENT == "AWAITING_REFINEMENT"
ConversationState == {MAIN_MENU, AWAITING_DESCRIPTION, PROMPT_SHOWN, AWAITING_REFINEMENT}
\* the user has no conversation yet: ConversationHandler holds no state for the key
NoConversation == "NO_CONVERSATION"

\* ------------------------------------------------------------------ bounds
\* the clock stops advancing at MaxTime (seconds)
MaxTime == 60
\* generations delivered per user in one run
MaxGenerations == 2
\* the longest text given to split_into_chunks directly
MaxTextLen == 6
\* the largest max_length given to split_into_chunks directly
MaxLimit == 4
\* direct calls of is_allowed in one run of the rate limiter alone
MaxAsked == 7
\* clock moves in one run of the rate limiter alone
MaxAdvances == 3

Users == {1, 2}
\* the users who only open the menu and ask for help; the others press every
\* button and type descriptions and refinements
Visitors == {2}
\* texts a user types: blank, and one with leading whitespace
UserTexts == {<<" ">>, <<" ", "x">>}
\* category buttons the user presses
ButtonCategories == {"image", "code"}
\* what the completion API answers: no body, a blank body and two texts
Contents == {<<>>, <<" ">>, <<"a", " ">>, <<"b">>}
\* what the transport raises, by the text of the exception
TransportErrors == {"Connection error.", "Request timed out.", "Error code: 401"}
\* the characters of the texts given to split_into_chunks directly
ChunkAlphabet == {"a", "b", " ", "\n"}
\* how far the clock moves in one step
TickSteps == {60}
\* how far the clock moves in one step of a run of the rate limiter alone
AdvanceSteps == {1, 58, 61}

\* ------------------------------------------------------------------ texts
None == <<>>
Some(x) == <<x>>
IsSet(o) == o # <<>>
Get(o) == o[1]

Whitespace == {" ", "\n", "\t"}

RECURSIVE LStrip(_)
LStrip(s) ==
    IF s = <<>> THEN <<>>
    ELSE IF Head(s) \in Whitespace THEN LStrip(Tail(s)) ELSE s

RECURSIVE RStrip(_)
RStrip(s) ==
    IF s = <<>> THEN <<>>
    ELSE IF s[Len(s)] \in Whitespace THEN RStrip(SubSeq(s, 1, Len(s) - 1)) ELSE s

\* str.strip()
Strip(s) == RStrip(LStrip(s))

\* s[:n]
Take(s, n) == SubSeq(s, 1, IF n < Len(s) THEN n ELSE Len(s))

\* s[-n:] of a list
LastN(s, n) == IF Len(s) <= n THEN s ELSE SubSeq(s, Len(s) - n + 1, Len(s))

\* the entry handle_description appends to the history
HistoryEntry(category_value, result) ==
    [category |-> category_value,
     text |-> Take(result, HISTORY_PREVIEW_LENGTH)
                \o (IF Len(result) > HISTORY_PREVIEW_LENGTH THEN <<"...">> ELSE <<>>)]

\* ------------------------------------------------------------------ utils.py
\* str.split(): the maximal runs of non-whitespace characters, in order
RECURSIVE SplitAcc(_, _, _)
SplitAcc(s, cur, acc) ==
    IF s = <<>> THEN (IF cur = <<>> THEN acc ELSE Append(acc, cur))
    ELSE IF Head(s) \in Whitespace
         THEN SplitAcc(Tail(s), <<>>, IF cur = <<>> THEN acc ELSE Append(acc, cur))
         ELSE SplitAcc(Tail(s), Append(cur, Head(s)), acc)

Split(s) == SplitAcc(s, <<>>, <<>>)

\* " ".join(parts)
RECURSIVE Join(_)
Join(parts) ==
    IF parts = <<>> THEN <<>>
    ELSE IF Len(parts) = 1 THEN parts[1]
    ELSE parts[1] \o <<" ">> \o Join(Tail(parts))

\* [part[i : i + max_length] for i in range(0, len(part), max_length)]
RECURSIVE Slices(_, _)
Slices(part, max_length) ==
    IF part = <<>> THEN <<>>
    ELSE IF Len(part) <= max_length THEN <<part>>
    ELSE <<SubSeq(part, 1, max_length)>>
           \o Slices(SubSeq(part, max_length + 1, Len(part)), max_length)

\* the loop body not counting the space that joins a token to the line
ChunkStep_NoSeparator(st, part, max_length) ==
    LET flushed == IF st.current # <<>>
                   THEN Append(st.chunks, Join(st.current)) ELSE st.chunks
    IN  IF st.current_len + Len(part) <= max_length
        THEN [chunks |-> st.chunks,
              current |-> Append(st.current, part),
              current_len |-> st.current_len + Len(part)]
        ELSE IF Len(part) > max_length
        THEN [chunks |-> flushed \o Slices(part, max_length),
              current |-> <<>>,
              current_len |-> 0]
        ELSE [chunks |-> flushed,
              current |-> <<part>>,
              current_len |-> Len(part) + 1]

\* the loop body starting the next line with the last slice of an over-long token
ChunkStep_PacksRemainder(st, part, max_length) ==
    LET part_len == Len(part) + (IF st.current # <<>> THEN 1 ELSE 0)
        flushed == IF st.current # <<>>
                   THEN Append(st.chunks, Join(st.current)) ELSE st.chunks
        slices == Slices(part, max_length)
    IN  IF st.current_len + part_len <= max_length
        THEN [chunks |-> st.chunks,
              current |-> Append(st.current, part),
              current_len |-> st.current_len + part_len]
        ELSE IF Len(part) > max_length
        THEN [chunks |-> flushed \o SubSeq(slices, 1, Len(slices) - 1),
              current |-> <<slices[Len(slices)]>>,
              current_len |-> Len(slices[Len(slices)])]
        ELSE [chunks |-> flushed,
              current |-> <<part>>,
              current_len |-> Len(part) + 1]

\* one pass of the for loop of split_into_chunks over the token `part`
ChunkStep(st, part, max_length) ==
    LET part_len == Len(part) + (IF st.current # <<>> THEN 1 ELSE 0)
        flushed == IF st.current # <<>>
                   THEN Append(st.chunks, Join(st.current)) ELSE st.chunks
    IN  IF st.current_len + part_len <= max_length
        THEN [chunks |-> st.chunks,
              current |-> Append(st.current, part),
              current_len |-> st.current_len + part_len]
        ELSE IF Len(part) > max_length
        THEN [chunks |-> flushed \o Slices(part, max_length),
              current |-> <<>>,
              current_len |-> 0]
        ELSE [chunks |-> flushed,
              current |-> <<part>>,
              current_len |-> Len(part) + 1]

RECURSIVE ChunkLoop(_, _, _)
ChunkLoop(st, parts, max_length) ==
    IF parts = <<>> THEN st
    ELSE ChunkLoop(ChunkStep(st, Head(parts), max_length), Tail(parts), max_length)

\* split_into_chunks without the flush of the last line
split_into_chunks_DropsLastLine(text, max_length) ==
    IF text = <<>> THEN <<>>
    ELSE IF Len(text) <= max_length THEN <<text>>
    ELSE ChunkLoop([chunks |-> <<>>, current |-> <<>>, current_len |-> 0],
                   Split(text), max_length).chunks

split_into_chunks(text, max_length) ==
    IF text = <<>> THEN <<>>
    ELSE IF Len(text) <= max_length THEN <<text>>
    ELSE LET st == ChunkLoop([chunks |-> <<>>, current |-> <<>>, current_len |-> 0],
                             Split(text), max_length)
         IN  IF st.current # <<>> THEN Append(st.chunks, Join(st.current)) ELSE st.chunks

\* is_allowed without the purge
Purge_KeepsAll(ts, cutoff) == ts

\* the list comprehension of is_allowed: the timestamps newer than the cutoff
Purge(ts, cutoff) == SelectSeq(ts, LAMBDA t : t > cutoff)

\* is_allowed recording the attempt before it tests the limit
is_allowed_RecordsRejected(ts, t, max_per_minute) ==
    LET kept == Purge(ts, t - RATE_WINDOW_SECONDS)
    IN  [allowed |-> Len(kept) < max_per_minute, timestamps |-> Append(kept, t)]

\* is_allowed rejecting only when more than max_per_minute timestamps are kept
is_allowed_AllowsAtLimit(ts, t, max_per_minute) ==
    LET kept == Purge(ts, t - RATE_WINDOW_SECONDS)
    IN  IF Len(kept) > max_per_minute
        THEN [allowed |-> FALSE, timestamps |-> kept]
        ELSE [allowed |-> TRUE, timestamps |-> Append(kept, t)]

\* RateLimiter.is_allowed on one user's timestamps at time t:
\* the answer and the timestamps the call leaves behind
is_allowed(ts, t, max_per_minute) ==
    LET kept == Purge(ts, t - RATE_WINDOW_SECONDS)
    IN  IF Len(kept) >= max_per_minute
        THEN [allowed |-> FALSE, timestamps |-> kept]
        ELSE [allowed |-> TRUE, timestamps |-> Append(kept, t)]

\* ------------------------------------------------------------------ state
VARIABLES
    conv_state,   \* ConversationHandler's state of each user's conversation
    user_data,    \* context.user_data of each user
    timestamps,   \* rate_limiter._timestamps
    now,          \* time.monotonic(), in seconds
    proc,         \* the handler suspended in call_deepseek, if any
    call,         \* the frame of call_deepseek: loop index, last_error, outcome
    sent,         \* the messages the update being handled has put in the chat
    last,         \* the update handled last: handler, path taken, state before it
    generated,    \* per user, the history entries of the generations delivered
    quota,        \* per user, the generations this run may still deliver
    probe,        \* the direct calls of is_allowed made so far, and the clock moves
    chunked       \* a direct call of split_into_chunks: its arguments and its result

vars == <<conv_state, user_data, timestamps, now, proc, call, sent, last, generated, quota, probe, chunked>>

EmptyUserData ==
    [category |-> None, last_prompt |-> None, last_category |-> None,
     original_description |-> None, history |-> <<>>]

Idle == [handler |-> "none", user |-> 0, user_text |-> <<>>, category_value |-> ""]

NoArgs == [system_prompt |-> "", current_prompt |-> <<>>, user_text |-> <<>>]

CallIdle ==
    [pc |-> "idle", attempt |-> 0, last_error |-> "", result |-> <<>>,
     args |-> NoArgs, tried |-> <<>>, slept |-> <<>>]

\* the record of an update: who sent it, the callback that took it, the path the
\* callback went, the text typed, the conversation state and user_data it found,
\* the rate limiter's answer ("none" when it was not asked), and what
\* call_deepseek did for it (attempts made, text returned), and the exception
\* its except clause caught ("" when none)
Update(u, handler, path, text, allowed) ==
    [user |-> u, handler |-> handler, path |-> path, text |-> text,
     pre_state |-> IF u \in Users THEN conv_state[u] ELSE NoConversation,
     pre_data |-> IF u \in Users THEN user_data[u] ELSE EmptyUserData,
     allowed |-> allowed, attempts |-> 0, result |-> <<>>, error |-> ""]

NoUpdate == Update(0, "none", "none", <<>>, "none")

\* split_into_chunks has not been called directly
NoChunking ==
    [text |-> <<>>, max_length |-> MAX_MESSAGE_LENGTH, chunks |-> <<>>, pc |-> "idle"]

Init ==
    /\ conv_state = [u \in Users |-> NoConversation]
    /\ user_data = [u \in Users |-> EmptyUserData]
    /\ timestamps = [u \in Users |-> <<>>]
    /\ now = 0
    /\ proc = Idle
    /\ call = CallIdle
    /\ sent = <<>>
    /\ last = NoUpdate
    /\ generated = [u \in Users |-> <<>>]
    /\ quota = [u \in Users |-> MaxGenerations]
    /\ probe = [calls |-> <<>>, advances |-> 0]
    /\ chunked = NoChunking

\* ------------------------------------------------------------------ messages
\* a message in the chat: which text, its body when it is a generated text,
\* and the inline keyboard under it
Msg(kind, kb) == [kind |-> kind, body |-> <<>>, kb |-> kb]
TextMsg(body) == [kind |-> "text", body |-> body, kb |-> "none"]

CategoryMenu(kind) == Msg(kind, "category")
ApproveRefineMenu == Msg("MSG_APPROVE_OR_REFINE", "approve_refine")
StatusMsg == Msg("MSG_SENDING", "none")

\* PROMPT_MESSAGES[category] under get_awaiting_keyboard()
PromptMessage(category) == [kind |-> "PROMPT_MESSAGES", body |-> <<category>>, kb |-> "awaiting"]

\* ------------------------------------------------------------------ dispatch
Command(name) == [type |-> "command", name |-> name, text |-> <<>>]
TextUpdate(text) == [type |-> "text", name |-> "", text |-> text]
Button(data) == [type |-> "callback", name |-> data, text |-> <<>>]

ButtonData == ButtonCategories \cup {"help", "back", "approve", "refine"}

CommandHandler(name, callback) ==
    [type |-> "command", names |-> {name}, callback |-> callback]
\* MessageHandler(filters.TEXT & ~filters.COMMAND, callback)
MessageHandler(callback) ==
    [type |-> "text", names |-> {""}, callback |-> callback]
\* CallbackQueryHandler(callback, pattern="^(...)$")
CallbackQueryHandler(callback, pattern) ==
    [type |-> "callback", names |-> pattern, callback |-> callback]

main_menu_handlers ==
    << CallbackQueryHandler("category_callback", Category),
       CallbackQueryHandler("help_callback", {"help"}),
       MessageHandler("main_menu_text") >>

awaiting_handlers ==
    << CallbackQueryHandler("back_callback", {"back"}),
       MessageHandler("handle_description") >>

prompt_shown_handlers ==
    << CallbackQueryHandler("approve_callback", {"approve"}),
       CallbackQueryHandler("refine_callback", {"refine"}) >>

awaiting_refinement_handlers ==
    << CallbackQueryHandler("back_callback", {"back"}),
       MessageHandler("handle_refinement") >>

\* CallbackQueryHandler(entry_callback) has no pattern: any button
entry_points ==
    << CommandHandler("start", "cmd_start"),
       MessageHandler("cmd_start"),
       CallbackQueryHandler("entry_callback", Category \cup {"help", "back", "approve", "refine"}) >>

\* the fallbacks without the /cancel command
fallbacks_NoCancel ==
    << CallbackQueryHandler("category_callback", Category),
       CallbackQueryHandler("help_callback", {"help"}),
       CallbackQueryHandler("back_callback", {"back"}),
       CallbackQueryHandler("approve_callback", {"approve"}),
       CallbackQueryHandler("refine_callback", {"refine"}),
       CommandHandler("start", "cmd_start") >>

fallbacks ==
    << CallbackQueryHandler("category_callback", Category),
       CallbackQueryHandler("help_callback", {"help"}),
       CallbackQueryHandler("back_callback", {"back"}),
       CallbackQueryHandler("approve_callback", {"approve"}),
       CallbackQueryHandler("refine_callback", {"refine"}),
       CommandHandler("cancel", "cmd_cancel"),
       CommandHandler("start", "cmd_start") >>

states ==
    [s \in ConversationState |->
        CASE s = MAIN_MENU -> main_menu_handlers
          [] s = AWAITING_DESCRIPTION -> awaiting_handlers
          [] s = PROMPT_SHOWN -> prompt_shown_handlers
          [] s = AWAITING_REFINEMENT -> awaiting_refinement_handlers]

Matches(h, upd) == h.type = upd.type /\ upd.name \in h.names

\* the callback of the first handler of the list that takes the update
FirstMatch(handlers, upd) ==
    IF \E i \in 1..Len(handlers) : Matches(handlers[i], upd)
    THEN handlers[CHOOSE i \in 1..Len(handlers) :
                    /\ Matches(handlers[i], upd)
                    /\ \A j \in 1..(i - 1) : ~Matches(handlers[j], upd)].callback
    ELSE "none"

\* The callback that handles an update of a user whose conversation is in
\* state s.  /help and /history are taken by the handlers added before the
\* ConversationHandler; the conversation tries the entry points when it has
\* no state for the user, and otherwise the state's handlers, then fallbacks.
Dispatch(s, upd) ==
    IF upd = Command("help") THEN "cmd_help"
    ELSE IF upd = Command("history") THEN "cmd_history"
    ELSE IF s = NoConversation THEN FirstMatch(entry_points, upd)
    ELSE IF FirstMatch(states[s], upd) # "none" THEN FirstMatch(states[s], upd)
    ELSE FirstMatch(fallbacks, upd)

\* no update is being handled
Ready == proc.handler = "none"

\* a handler that ran to its return statement: the conversation takes the
\* state it returned, the chat shows what it sent
Returns(u, handler, path, next_state, messages) ==
    /\ conv_state' = [conv_state EXCEPT ![u] = next_state]
    /\ sent' = messages
    /\ last' = Update(u, handler, path, <<>>, "none")
    /\ proc' = Idle
    /\ call' = CallIdle

\* ------------------------------------------------------------------ handlers
\* send_main_menu with the default text, from /start or a first text message
cmd_start(u) ==
    \E upd \in {Command("start")} \cup {TextUpdate(t) : t \in UserTexts} :
        /\ Ready
        /\ Dispatch(conv_state[u], upd) = "cmd_start"
        /\ Returns(u, "cmd_start", "menu", MAIN_MENU, <<CategoryMenu("MSG_WELCOME")>>)
        /\ UNCHANGED <<user_data, timestamps, now, generated, quota, probe, chunked>>

entry_callback(u) ==
    \E data \in ButtonData :
        /\ Ready
        /\ Dispatch(conv_state[u], Button(data)) = "entry_callback"
        /\ Returns(u, "entry_callback", "menu", MAIN_MENU, <<CategoryMenu("MSG_WELCOME")>>)
        /\ UNCHANGED <<user_data, timestamps, now, generated, quota, probe, chunked>>

\* returns None: the conversation state is not touched
cmd_help(u) ==
    /\ Ready
    /\ Dispatch(conv_state[u], Command("help")) = "cmd_help"
    /\ Returns(u, "cmd_help", "help", conv_state[u], <<Msg("MSG_HELP", "none")>>)
    /\ UNCHANGED <<user_data, timestamps, now, generated, quota, probe, chunked>>

cmd_history(u) ==
    /\ Ready
    /\ Dispatch(conv_state[u], Command("history")) = "cmd_history"
    /\ Returns(u, "cmd_history",
               IF user_data[u].history = <<>> THEN "empty" ELSE "listed",
               conv_state[u],
               IF user_data[u].history = <<>>
               THEN <<Msg("MSG_HISTORY_EMPTY", "none")>>
               ELSE <<Msg("MSG_HISTORY_HEADER", "none")>>)
    /\ UNCHANGED <<user_data, timestamps, now, generated, quota, probe, chunked>>

main_menu_text(u) ==
    \E t \in UserTexts :
        /\ Ready
        /\ Dispatch(conv_state[u], TextUpdate(t)) = "main_menu_text"
        /\ Returns(u, "main_menu_text", "menu", MAIN_MENU,
                   <<CategoryMenu("MSG_CHOOSE_CATEGORY")>>)
        /\ UNCHANGED <<user_data, timestamps, now, generated, quota, probe, chunked>>

\* category_callback that sends the request for a description and does not
\* store the category
category_callback_ForgetsCategory(u) ==
    \E data \in ButtonCategories :
        /\ Ready
        /\ Dispatch(conv_state[u], Button(data)) = "category_callback"
        /\ Returns(u, "category_callback", "chosen", AWAITING_DESCRIPTION,
                   <<PromptMessage(data)>>)
        /\ UNCHANGED <<user_data, timestamps, now, generated, quota, probe, chunked>>

\* Category(data) raises ValueError for data that is no category; the chat of
\* a button press is always known
category_callback(u) ==
    \E data \in ButtonCategories :
        /\ Ready
        /\ Dispatch(conv_state[u], Button(data)) = "category_callback"
        /\ IF data \notin Category
           THEN /\ Returns(u, "category_callback", "no_category", MAIN_MENU, <<>>)
                /\ UNCHANGED user_data
           ELSE /\ user_data' = [user_data EXCEPT ![u].category = Some(data)]
                /\ Returns(u, "category_callback", "chosen", AWAITING_DESCRIPTION,
                           <<PromptMessage(data)>>)
        /\ UNCHANGED <<timestamps, now, generated, quota, probe, chunked>>

help_callback(u) ==
    /\ Ready
    /\ Dispatch(conv_state[u], Button("help")) = "help_callback"
    /\ Returns(u, "help_callback", "help", MAIN_MENU, <<Msg("MSG_HELP", "none")>>)
    /\ UNCHANGED <<user_data, timestamps, now, generated, quota, probe, chunked>>

back_callback(u) ==
    /\ Ready
    /\ Dispatch(conv_state[u], Button("back")) = "back_callback"
    /\ Returns(u, "back_callback", "menu", MAIN_MENU,
               <<CategoryMenu("MSG_CHOOSE_CATEGORY")>>)
    /\ UNCHANGED <<user_data, timestamps, now, generated, quota, probe, chunked>>

approve_callback(u) ==
    /\ Ready
    /\ Dispatch(conv_state[u], Button("approve")) = "approve_callback"
    /\ Returns(u, "approve_callback", "menu", MAIN_MENU,
               <<CategoryMenu("MSG_CHOOSE_CATEGORY")>>)
    /\ UNCHANGED <<user_data, timestamps, now, generated, quota, probe, chunked>>

refine_callback(u) ==
    /\ Ready
    /\ Dispatch(conv_state[u], Button("refine")) = "refine_callback"
    /\ Returns(u, "refine_callback", "ask", AWAITING_REFINEMENT,
               <<Msg("MSG_SEND_REFINEMENT", "awaiting")>>)
    /\ UNCHANGED <<user_data, timestamps, now, generated, quota, probe, chunked>>

cmd_cancel(u) ==
    /\ Ready
    /\ Dispatch(conv_state[u], Command("cancel")) = "cmd_cancel"
    /\ Returns(u, "cmd_cancel", "menu", MAIN_MENU, <<CategoryMenu("MSG_CANCEL")>>)
    /\ UNCHANGED <<user_data, timestamps, now, generated, quota, probe, chunked>>

\* ------------------------------------------------------------------ completion client
\* what one chat.completions.create call does: a body, or an exception
TransportOutcomes ==
    {[ok |-> TRUE, content |-> c, error |-> ""] : c \in Contents}
      \cup {[ok |-> FALSE, content |-> <<>>, error |-> e] : e \in TransportErrors}

EmptyResponse == "Empty response from DeepSeek"

\* call_deepseek without the check of the body
AttemptError_AcceptsBlank(o) == IF ~o.ok THEN o.error ELSE ""

\* the exception one pass of the try block ends with, "" when it returns
AttemptError(o) ==
    IF ~o.ok THEN o.error
    ELSE IF o.content = <<>> \/ Strip(o.content) = <<>> THEN EmptyResponse
    ELSE ""

\* the frame call_deepseek starts with
CallStart(system_prompt, current_prompt, user_text) ==
    [pc |-> "request", attempt |-> 0, last_error |-> "", result |-> <<>>,
     args |-> [system_prompt |-> system_prompt, current_prompt |-> current_prompt,
               user_text |-> user_text],
     tried |-> <<>>, slept |-> <<>>]

\* call_deepseek comparing the loop index with the attempts, not attempts - 1:
\* it sleeps after the last attempt and goes round once more
AfterAttempt_OneMore(c, o) ==
    IF AttemptError(o) = ""
    THEN [c EXCEPT !.pc = "returned", !.result = Strip(o.content),
                   !.tried = Append(c.tried, o)]
    ELSE [c EXCEPT !.pc = IF c.attempt < DEEPSEEK_RETRY_ATTEMPTS
                          THEN "sleep" ELSE "raised",
                   !.last_error = AttemptError(o),
                   !.tried = Append(c.tried, o)]

\* the frame after one pass of the loop body whose request ended as o
AfterAttempt(c, o) ==
    IF AttemptError(o) = ""
    THEN [c EXCEPT !.pc = "returned", !.result = Strip(o.content),
                   !.tried = Append(c.tried, o)]
    ELSE [c EXCEPT !.pc = IF c.attempt < DEEPSEEK_RETRY_ATTEMPTS - 1
                          THEN "sleep" ELSE "raised",
                   !.last_error = AttemptError(o),
                   !.tried = Append(c.tried, o)]

\* one pass of the loop of call_deepseek: the request, the check of the body,
\* and the except clause up to the sleep
call_deepseek ==
    \E o \in TransportOutcomes :
        /\ call.pc = "request"
        /\ call' = AfterAttempt(call, o)
        /\ UNCHANGED <<conv_state, user_data, timestamps, now, proc, sent, last, generated, quota, probe, chunked>>

\* 2 ** attempt
RECURSIVE Pow2(_)
Pow2(n) == IF n = 0 THEN 1 ELSE 2 * Pow2(n - 1)

\* call_deepseek sleeping one second before every retry
AfterSleep_Constant(c) ==
    [c EXCEPT !.pc = "request", !.attempt = c.attempt + 1,
              !.slept = Append(c.slept, 1)]

\* the frame after asyncio.sleep(2 ** attempt): the loop goes to its next pass
AfterSleep(c) ==
    [c EXCEPT !.pc = "request", !.attempt = c.attempt + 1,
              !.slept = Append(c.slept, Pow2(c.attempt))]

\* The time the sleep takes is not added to the clock here: Tick lets any time
\* pass while the call is suspended.
backoff_sleep ==
    /\ call.pc = "sleep"
    /\ call' = AfterSleep(call)
    /\ UNCHANGED <<conv_state, user_data, timestamps, now, proc, sent, last, generated, quota, probe, chunked>>

\* ------------------------------------------------------------------ generation
\* str(e), character by character, of the exceptions the handlers catch
StrOf(e) ==
    CASE e = "Connection error." ->
           <<"C", "o", "n", "n", "e", "c", "t", "i", "o", "n", " ", "e", "r", "r", "o", "r", ".">>
      [] e = "Request timed out." ->
           <<"R", "e", "q", "u", "e", "s", "t", " ", "t", "i", "m", "e", "d", " ", "o", "u", "t", ".">>
      [] e = "Error code: 401" ->
           <<"E", "r", "r", "o", "r", " ", "c", "o", "d", "e", ":", " ", "4", "0", "1">>
      [] e = "Empty response from DeepSeek" ->
           <<"E", "m", "p", "t", "y", " ", "r", "e", "s", "p", "o", "n", "s", "e", " ", "f", "r", "o", "m", " ", "D", "e", "e", "p", "S", "e", "e", "k">>
      [] e = "Timed out" ->
           <<"T", "i", "m", "e", "d", " ", "o", "u", "t">>
      [] OTHER -> <<>>

UpperCase == <<"A", "B", "C", "D", "E", "F", "G", "H", "I", "J", "K", "L", "M", "N", "O", "P", "Q", "R", "S", "T", "U", "V", "W", "X", "Y", "Z">>
LowerCase == <<"a", "b", "c", "d", "e", "f", "g", "h", "i", "j", "k", "l", "m", "n", "o", "p", "q", "r", "s", "t", "u", "v", "w", "x", "y", "z">>

\* str.lower()
Lower(t) ==
    [i \in 1..Len(t) |->
        IF \E k \in 1..Len(UpperCase) : UpperCase[k] = t[i]
        THEN LowerCase[CHOOSE k \in 1..Len(UpperCase) : UpperCase[k] = t[i]]
        ELSE t[i]]

\* needle in t
Contains(t, needle) ==
    \E i \in 0..(Len(t) - Len(needle)) :
        \A k \in 1..Len(needle) : t[i + k] = needle[k]

\* the substrings the except clauses look for
Needles ==
    [timeout |-> <<"t", "i", "m", "e", "o", "u", "t">>,
     connection |-> <<"c", "o", "n", "n", "e", "c", "t", "i", "o", "n">>,
     api_key |-> <<"a", "p", "i", "_", "k", "e", "y">>,
     status401 |-> <<"4", "0", "1">>,
     status429 |-> <<"4", "2", "9">>]

\* which of the substrings the except clauses look for occur in str(e):
\* "timeout", "connection" and "api_key" in str(e).lower(), "401" and "429"
\* in str(e)
Found(e) ==
    {n \in {"timeout", "connection", "api_key"} : Contains(Lower(StrOf(e)), Needles[n])}
      \cup (IF Contains(StrOf(e), Needles.status401) THEN {"401"} ELSE {})
      \cup (IF Contains(StrOf(e), Needles.status429) THEN {"429"} ELSE {})

\* the exceptions the except clauses of the handlers can catch: those of the
\* transport, the empty response, and that of deleting the status message
Exceptions == TransportErrors \cup {"Empty response from DeepSeek", "Timed out"}

\* Found, worked out once for each exception
FoundIn == [e \in Exceptions |-> Found(e)]

Mentions(e) == FoundIn[e]

\* the err_msg of the except clause of handle_description and handle_refinement
ErrMsg(e) ==
    IF "timeout" \in Mentions(e) \/ "connection" \in Mentions(e)
    THEN "MSG_ERROR_NETWORK"
    ELSE IF "api_key" \in Mentions(e) \/ "401" \in Mentions(e) \/ "429" \in Mentions(e)
    THEN "MSG_ERROR_API"
    ELSE "MSG_ERROR_UNKNOWN"

\* status_msg.delete(): done, BadRequest, or another telegram error
DeleteOutcomes == {"ok", "BadRequest", "Timed out"}
\* status_msg.edit_text(err_msg)
EditOutcomes == {"ok", "failed"}

\* try: await status_msg.delete() / except BadRequest: pass
DeleteSwallowed(del) == del \in {"ok", "BadRequest"}

\* How the handler leaves its try block, given the frame call_deepseek ended
\* with and what deleting the status message did: through to the end, or into
\* the except clause with the error of the call or of the deletion.
ResumePath(c, del) ==
    IF c.pc = "raised" THEN "call_failed"
    ELSE IF DeleteSwallowed(del) THEN "success"
    ELSE "delete_failed"

\* the exception the except clause handles
CaughtError(c, del) == IF c.pc = "raised" THEN c.last_error ELSE del

\* the result as the handlers send it: whole, or in chunks
ResultMessages(result) ==
    IF Len(result) <= MAX_MESSAGE_LENGTH
    THEN <<TextMsg(result)>>
    ELSE [i \in 1..Len(split_into_chunks(result, MAX_MESSAGE_LENGTH)) |->
            TextMsg(split_into_chunks(result, MAX_MESSAGE_LENGTH)[i])]

\* the chat after the try block ran through: the status message gone unless
\* its deletion was refused, the header, the result, the Approve/Refine choice
SuccessMessages(result, del) ==
    (IF del = "ok" THEN <<>> ELSE <<StatusMsg>>)
      \o <<Msg("MSG_HERE_PROMPT", "none")>>
      \o ResultMessages(result)
      \o <<ApproveRefineMenu>>

\* the chat after the except clause: the status message edited into the error
\* text, or the error text sent after it, then the menu
ErrorMessages(e, edit, menu) ==
    (IF edit = "ok" THEN <<Msg(ErrMsg(e), "none")>>
     ELSE <<StatusMsg, Msg(ErrMsg(e), "none")>>) \o <<menu>>

\* what the rate limiter answered, as the record of the update keeps it
Answer(admission) == IF admission.allowed THEN "yes" ELSE "no"

\* a handler that reached call_deepseek and is suspended in it
Suspends(u, handler, text, allowed, user_text, category_value, frame) ==
    /\ sent' = <<StatusMsg>>
    /\ last' = Update(u, handler, "calling", text, allowed)
    /\ proc' = [handler |-> handler, user |-> u, user_text |-> user_text,
                category_value |-> category_value]
    /\ call' = frame
    /\ UNCHANGED conv_state

\* a handler that returned before it reached call_deepseek
ReturnsEarly(u, handler, path, text, allowed, next_state, messages) ==
    /\ conv_state' = [conv_state EXCEPT ![u] = next_state]
    /\ sent' = messages
    /\ last' = Update(u, handler, path, text, allowed)
    /\ proc' = Idle
    /\ call' = CallIdle

\* a suspended handler that ran to its return statement
Resumes(u, path, error, next_state, messages) ==
    /\ conv_state' = [conv_state EXCEPT ![u] = next_state]
    /\ sent' = messages
    /\ last' = [last EXCEPT !.path = path, !.attempts = Len(call.tried),
                            !.result = call.result, !.error = error]
    /\ proc' = Idle
    /\ call' = CallIdle

\* the history cut with history[:HISTORY_MAX_ITEMS]: the newest entry is dropped
AppendHistory_KeepsOldest(history, entry) ==
    Take(Append(history, entry), HISTORY_MAX_ITEMS)

\* history.append(...); history[-HISTORY_MAX_ITEMS:]
AppendHistory(history, entry) == LastN(Append(history, entry), HISTORY_MAX_ITEMS)

\* handle_description with the test of is_allowed inverted
DescriptionPath_Inverted(d, user_text, allowed) ==
    IF ~IsSet(d.category) \/ Get(d.category) \notin Category THEN "no_category"
    ELSE IF user_text = <<>> THEN "empty"
    ELSE IF allowed THEN "rate_limited"
    ELSE "calling"

\* The way handle_description goes for a user with user_data d who typed a
\* text that strips to user_text; allowed is what is_allowed answers if asked.
DescriptionPath(d, user_text, allowed) ==
    IF ~IsSet(d.category) \/ Get(d.category) \notin Category THEN "no_category"
    ELSE IF user_text = <<>> THEN "empty"
    ELSE IF ~allowed THEN "rate_limited"
    ELSE "calling"

\* handle_description that delivers the text and does not store it as last_prompt
DescriptionData_NoLastPrompt(d, p, c, del) ==
    IF ResumePath(c, del) = "success"
    THEN [d EXCEPT !.history = AppendHistory(d.history,
                                             HistoryEntry(p.category_value, c.result)),
                   !.last_category = Some(p.category_value),
                   !.original_description = Some(p.user_text)]
    ELSE d

\* user_data when handle_description returns after call_deepseek ended with
\* frame c and the deletion of the status message with del
DescriptionData(d, p, c, del) ==
    IF ResumePath(c, del) = "success"
    THEN [d EXCEPT !.history = AppendHistory(d.history,
                                             HistoryEntry(p.category_value, c.result)),
                   !.last_prompt = Some(c.result),
                   !.last_category = Some(p.category_value),
                   !.original_description = Some(p.user_text)]
    ELSE d

\* handle_description staying in AWAITING_DESCRIPTION when the generation fails
DescriptionReturn_StaysOnError(path) ==
    IF path = "success" THEN PROMPT_SHOWN ELSE AWAITING_DESCRIPTION

\* the state handle_description returns after call_deepseek
DescriptionReturn(path) == IF path = "success" THEN PROMPT_SHOWN ELSE MAIN_MENU

\* handle_description up to the call of call_deepseek
handle_description(u) ==
    \E t \in UserTexts :
        LET d == user_data[u]
            user_text == Strip(t)
            admission == is_allowed(timestamps[u], now, RATE_LIMIT_REQUESTS_PER_MINUTE)
            path == DescriptionPath(d, user_text, admission.allowed)
        IN  /\ Ready
            /\ Dispatch(conv_state[u], TextUpdate(t)) = "handle_description"
            /\ quota[u] > 0
            /\ CASE path = "no_category" ->
                      /\ ReturnsEarly(u, "handle_description", path, t, "none", MAIN_MENU,
                                      <<CategoryMenu("MSG_CHOOSE_CATEGORY")>>)
                      /\ UNCHANGED timestamps
                 [] path = "empty" ->
                      /\ ReturnsEarly(u, "handle_description", path, t, "none",
                                      AWAITING_DESCRIPTION,
                                      <<PromptMessage(Get(d.category))>>)
                      /\ UNCHANGED timestamps
                 [] path = "rate_limited" ->
                      /\ ReturnsEarly(u, "handle_description", path, t, Answer(admission),
                                      AWAITING_DESCRIPTION,
                                      <<Msg("MSG_RATE_LIMIT", "none")>>)
                      /\ timestamps' = [timestamps EXCEPT ![u] = admission.timestamps]
                 [] path = "calling" ->
                      /\ Suspends(u, "handle_description", t, Answer(admission), user_text,
                                  Get(d.category),
                                  CallStart(Get(d.category), <<>>, user_text))
                      /\ timestamps' = [timestamps EXCEPT ![u] = admission.timestamps]
            /\ UNCHANGED <<user_data, now, generated, quota, probe, chunked>>

\* handle_description from the return of call_deepseek on
handle_description_resume(u) ==
    \E del \in DeleteOutcomes, edit \in EditOutcomes :
        LET path == ResumePath(call, del)
        IN  /\ proc.handler = "handle_description"
            /\ proc.user = u
            /\ call.pc \in {"returned", "raised"}
            /\ user_data' = [user_data EXCEPT ![u] =
                                DescriptionData(user_data[u], proc, call, del)]
            /\ Resumes(u, path, IF path = "success" THEN "" ELSE CaughtError(call, del),
                       DescriptionReturn(path),
                       IF path = "success"
                       THEN SuccessMessages(call.result, del)
                       ELSE ErrorMessages(CaughtError(call, del), edit,
                                          CategoryMenu("MSG_CHOOSE_CATEGORY")))
            /\ generated' = [generated EXCEPT ![u] =
                                IF path = "success"
                                THEN Append(@, HistoryEntry(proc.category_value, call.result))
                                ELSE @]
            /\ quota' = [quota EXCEPT ![u] = IF path = "success" THEN @ - 1 ELSE @]
            /\ UNCHANGED <<timestamps, now, probe, chunked>>

\* the way handle_refinement goes
RefinementPath(d, user_text, allowed) ==
    IF ~IsSet(d.last_prompt) \/ Get(d.last_prompt) = <<>> THEN "no_prompt"
    ELSE IF user_text = <<>> THEN "empty"
    ELSE IF ~allowed THEN "rate_limited"
    ELSE "calling"

\* handle_refinement storing last_prompt before it deletes the status message
RefinementData_StoresBeforeDelete(d, c, del) ==
    IF c.pc = "returned" THEN [d EXCEPT !.last_prompt = Some(c.result)] ELSE d

\* handle_refinement appending to the history as handle_description does
RefinementData_AppendsHistory(d, c, del) ==
    IF ResumePath(c, del) = "success"
    THEN [d EXCEPT !.last_prompt = Some(c.result),
                   !.history = AppendHistory(d.history,
                                             HistoryEntry(Get(d.last_category), c.result))]
    ELSE d

\* user_data when handle_refinement returns after call_deepseek
RefinementData(d, c, del) ==
    IF ResumePath(c, del) = "success"
    THEN [d EXCEPT !.last_prompt = Some(c.result)]
    ELSE d

\* the state handle_refinement returns after call_deepseek, on either path
RefinementReturn(path) == PROMPT_SHOWN

\* handle_refinement up to the call of call_deepseek
handle_refinement(u) ==
    \E t \in UserTexts :
        LET d == user_data[u]
            user_text == Strip(t)
            admission == is_allowed(timestamps[u], now, RATE_LIMIT_REQUESTS_PER_MINUTE)
            path == RefinementPath(d, user_text, admission.allowed)
        IN  /\ Ready
            /\ Dispatch(conv_state[u], TextUpdate(t)) = "handle_refinement"
            /\ CASE path = "no_prompt" ->
                      /\ ReturnsEarly(u, "handle_refinement", path, t, "none", MAIN_MENU,
                                      <<CategoryMenu("MSG_CHOOSE_CATEGORY")>>)
                      /\ UNCHANGED timestamps
                 [] path = "empty" ->
                      /\ ReturnsEarly(u, "handle_refinement", path, t, "none",
                                      AWAITING_REFINEMENT,
                                      <<Msg("MSG_SEND_REFINEMENT", "awaiting")>>)
                      /\ UNCHANGED timestamps
                 [] path = "rate_limited" ->
                      /\ ReturnsEarly(u, "handle_refinement", path, t, Answer(admission),
                                      AWAITING_REFINEMENT,
                                      <<Msg("MSG_RATE_LIMIT", "none")>>)
                      /\ timestamps' = [timestamps EXCEPT ![u] = admission.timestamps]
                 [] path = "calling" ->
                      /\ Suspends(u, "handle_refinement", t, Answer(admission), user_text, "",
                                  CallStart("REFINEMENT_SYSTEM_PROMPT", Get(d.last_prompt),
                                            user_text))
                      /\ timestamps' = [timestamps EXCEPT ![u] = admission.timestamps]
            /\ UNCHANGED <<user_data, now, generated, quota, probe, chunked>>

\* handle_refinement from the return of call_deepseek on
handle_refinement_resume(u) ==
    \E del \in DeleteOutcomes, edit \in EditOutcomes :
        LET path == ResumePath(call, del)
        IN  /\ proc.handler = "handle_refinement"
            /\ proc.user = u
            /\ call.pc \in {"returned", "raised"}
            /\ user_data' = [user_data EXCEPT ![u] = RefinementData(user_data[u], call, del)]
            /\ Resumes(u, path, IF path = "success" THEN "" ELSE CaughtError(call, del),
                       RefinementReturn(path),
                       IF path = "success"
                       THEN SuccessMessages(call.result, del)
                       ELSE ErrorMessages(CaughtError(call, del), edit, ApproveRefineMenu))
            /\ UNCHANGED <<timestamps, now, generated, quota, probe, chunked>>

\* ------------------------------------------------------------------ time
Tick ==
    \E d \in TickSteps :
        /\ now + d <= MaxTime
        /\ now' = now + d
        /\ UNCHANGED <<conv_state, user_data, timestamps, proc, call, sent, last,
                       generated, quota, probe, chunked>>

\* ------------------------------------------------------------------ specification
Next ==
    \/ \E u \in Users \ Visitors :
        \/ cmd_start(u)
        \/ entry_callback(u)
        \/ cmd_help(u)
        \/ cmd_history(u)
        \/ main_menu_text(u)
        \/ category_callback(u)
        \/ help_callback(u)
        \/ back_callback(u)
        \/ approve_callback(u)
        \/ refine_callback(u)
        \/ cmd_cancel(u)
        \/ handle_description(u)
        \/ handle_description_resume(u)
        \/ handle_refinement(u)
        \/ handle_refinement_resume(u)
    \/ \E v \in Visitors :
        \/ cmd_start(v)
        \/ main_menu_text(v)
        \/ cmd_help(v)
    \/ call_deepseek
    \/ backoff_sleep
    \/ Tick

Spec == Init /\ [][Next]_vars

\* ------------------------------------------------------------------ properties
ErrorTexts == {"MSG_ERROR_NETWORK", "MSG_ERROR_API", "MSG_ERROR_UNKNOWN"}

\* the update of user u that callback `handler` took has been handled to its end
Handled(u, handler) == last.user = u /\ last.handler = handler /\ last.path # "calling"

\* call_deepseek returned a text to the handler
ClientSucceeded == last.path \in {"success", "delete_failed"}

\* h is h0 with one entry appended, cut to the last HISTORY_MAX_ITEMS entries
AppendedOne(h0, h) ==
    /\ h # <<>>
    /\ Len(h) <= HISTORY_MAX_ITEMS
    /\ IF Len(h0) < HISTORY_MAX_ITEMS
       THEN h = Append(h0, h[Len(h)])
       ELSE \A i \in 1..(Len(h) - 1) : h[i] = h0[i + 1]

\* the chat ends with an error text and then the given menu
ErrorThenMenu(msgs, menu) ==
    /\ Len(msgs) >= 2
    /\ msgs[Len(msgs) - 1].kind \in ErrorTexts
    /\ msgs[Len(msgs)] = menu

\* C1: a description typed in AwaitingDescription with a stored category, admitted
\* by the rate limiter and answered by the Completion Client, leaves the session
\* in PromptShown with one history entry of the stored category appended and
\* lastPrompt, lastCategory and originalDescription set.
C1_DescriptionGenerated ==
    \A u \in Users :
        (Handled(u, "handle_description") /\ ClientSucceeded)
        => /\ last.pre_state = AWAITING_DESCRIPTION
           /\ IsSet(last.pre_data.category)
           /\ last.allowed = "yes"
           /\ conv_state[u] = PROMPT_SHOWN
           /\ AppendedOne(last.pre_data.history, user_data[u].history)
           /\ user_data[u].history[Len(user_data[u].history)].category
                = Get(last.pre_data.category)
           /\ user_data[u].last_prompt = Some(last.result)
           /\ user_data[u].last_category = last.pre_data.category
           /\ user_data[u].original_description = Some(Strip(last.text))

\* C2: when call_deepseek raises in handle_description, the session is in MainMenu,
\* the chat shows an error text followed by the category menu, and history and
\* lastPrompt are what they were before the update.
C2_GenerationFailureRecovers ==
    \A u \in Users :
        (Handled(u, "handle_description") /\ last.path = "call_failed")
        => /\ conv_state[u] = MAIN_MENU
           /\ ErrorThenMenu(sent, CategoryMenu("MSG_CHOOSE_CATEGORY"))
           /\ user_data[u].history = last.pre_data.history
           /\ user_data[u].last_prompt = last.pre_data.last_prompt

C2_Witness ==
    \E u \in Users :
        /\ Handled(u, "handle_description")
        /\ last.path = "call_failed"
        /\ last.attempts = DEEPSEEK_RETRY_ATTEMPTS
        /\ last.pre_data.history # <<>>

\* C3: when handle_refinement ends on its error path, the session is in
\* PromptShown, the chat shows an error text followed by the Approve/Refine menu,
\* and lastPrompt is the prompt stored before the update.
C3_RefinementFailureKeepsPrompt ==
    \A u \in Users :
        (Handled(u, "handle_refinement") /\ last.path \in {"call_failed", "delete_failed"})
        => /\ conv_state[u] = PROMPT_SHOWN
           /\ ErrorThenMenu(sent, ApproveRefineMenu)
           /\ IsSet(user_data[u].last_prompt)
           /\ user_data[u].last_prompt = last.pre_data.last_prompt

C3_Witness ==
    \E u \in Users :
        /\ Handled(u, "handle_refinement")
        /\ last.path = "call_failed"
        /\ last.allowed = "yes"

\* C4: when the rate limiter rejects a non-blank text in AwaitingDescription or
\* AwaitingRefinement, the handler returns without calling the Completion Client,
\* the session stays in the state it was in, the chat shows the rate-limit notice,
\* and history and lastPrompt are unchanged.
C4_RateLimitedStays ==
    \A u \in Users :
        (last.user = u /\ last.allowed = "no")
        => /\ last.handler \in {"handle_description", "handle_refinement"}
           /\ last.handler = "handle_description" => last.pre_state = AWAITING_DESCRIPTION
           /\ last.handler = "handle_refinement" => last.pre_state = AWAITING_REFINEMENT
           /\ Ready
           /\ call.pc = "idle"
           /\ last.attempts = 0
           /\ conv_state[u] = last.pre_state
           /\ sent = <<Msg("MSG_RATE_LIMIT", "none")>>
           /\ user_data[u].history = last.pre_data.history
           /\ user_data[u].last_prompt = last.pre_data.last_prompt

C4_Witness ==
    \E u \in Users :
        /\ last.user = u
        /\ last.handler = "handle_description"
        /\ last.allowed = "no"
        /\ Strip(last.text) # <<>>
        /\ last.pre_data.history # <<>>

\* the respective case of C4: a refinement text the rate limiter rejects
C4_RefinementRejected ==
    \E u \in Users :
        last.user = u /\ last.handler = "handle_refinement" /\ last.allowed = "no"

\* C6: a refinement text typed in AwaitingRefinement, admitted and answered by the
\* Completion Client, leaves the session in PromptShown with lastPrompt replaced
\* by the refined text and the history unchanged.
C6_RefinementReplacesPrompt ==
    \A u \in Users :
        (Handled(u, "handle_refinement") /\ ClientSucceeded)
        => /\ last.pre_state = AWAITING_REFINEMENT
           /\ conv_state[u] = PROMPT_SHOWN
           /\ user_data[u].last_prompt = Some(last.result)
           /\ user_data[u].history = last.pre_data.history

Succeeded(o) == o.ok /\ Strip(o.content) # <<>>

\* C10: call_deepseek stops at the first attempt that succeeds and returns its
\* text (after exactly 3 attempts when two failed before it); when every attempt
\* fails it makes exactly DEEPSEEK_RETRY_ATTEMPTS attempts and raises the error
\* of the last one.
C10_RetryUntilFirstSuccess ==
    /\ call.pc = "returned"
       => /\ Len(call.tried) \in 1..DEEPSEEK_RETRY_ATTEMPTS
          /\ Succeeded(call.tried[Len(call.tried)])
          /\ call.result = Strip(call.tried[Len(call.tried)].content)
          /\ \A i \in 1..(Len(call.tried) - 1) : ~Succeeded(call.tried[i])
    /\ call.pc = "raised"
       => /\ Len(call.tried) = DEEPSEEK_RETRY_ATTEMPTS
          /\ \A i \in 1..Len(call.tried) : ~Succeeded(call.tried[i])
          /\ ~call.tried[Len(call.tried)].ok
             => call.last_error = call.tried[Len(call.tried)].error
          /\ call.tried[Len(call.tried)].ok => call.last_error = EmptyResponse
    /\ call.pc \in {"request", "sleep"}
       => /\ Len(call.tried) < DEEPSEEK_RETRY_ATTEMPTS
          /\ \A i \in 1..Len(call.tried) : ~Succeeded(call.tried[i])

\* two failures, then a success: returned after exactly 3 attempts
C10_Witness ==
    /\ call.pc = "returned"
    /\ Len(call.tried) = 3
    /\ ~call.tried[1].ok
    /\ ~call.tried[2].ok
    /\ call.tried[1].error # call.tried[2].error

\* every attempt failed: raised with the last error after DEEPSEEK_RETRY_ATTEMPTS
C10_Exhausted ==
    /\ call.pc = "raised"
    /\ ~call.tried[DEEPSEEK_RETRY_ATTEMPTS].ok
    /\ call.tried[1].error # call.tried[DEEPSEEK_RETRY_ATTEMPTS].error

\* the body of an answered request is empty or only whitespace
Blank(o) == o.ok /\ (o.content = <<>> \/ \A k \in 1..Len(o.content) : o.content[k] \in Whitespace)

\* C11: an answered request whose body is empty or only whitespace is a failed
\* attempt, followed by the backoff sleep and the next request or, at the last
\* attempt, by the raise;
\* the text call_deepseek returns is never empty or only whitespace; and when
\* every attempt was answered with a blank body, call_deepseek raises the
\* empty-response error after exactly DEEPSEEK_RETRY_ATTEMPTS attempts.
C11_BlankBodyIsFailure ==
    /\ \A i \in 1..Len(call.tried) :
          Blank(call.tried[i])
          => \/ i < Len(call.tried)
             \/ i < DEEPSEEK_RETRY_ATTEMPTS /\ call.pc \in {"sleep", "request"}
             \/ i = DEEPSEEK_RETRY_ATTEMPTS /\ call.pc = "raised"
    /\ call.pc = "returned"
       => /\ call.result # <<>>
          /\ \E k \in 1..Len(call.result) : call.result[k] \notin Whitespace
    /\ (call.pc = "raised" /\ \A i \in 1..Len(call.tried) : Blank(call.tried[i]))
       => /\ Len(call.tried) = DEEPSEEK_RETRY_ATTEMPTS
          /\ call.last_error = EmptyResponse
    /\ (Ready /\ last.path = "success")
       => \E k \in 1..Len(last.result) : last.result[k] \notin Whitespace

\* the transport answered every request with an empty string
C11_Witness ==
    /\ call.pc = "raised"
    /\ Len(call.tried) = DEEPSEEK_RETRY_ATTEMPTS
    /\ \A i \in 1..Len(call.tried) : call.tried[i].ok /\ call.tried[i].content = <<>>
    /\ call.last_error = EmptyResponse

\* a blank body at the first attempt, a text at the second
C11_BlankThenText ==
    /\ call.pc = "returned"
    /\ Len(call.tried) = 2
    /\ call.tried[1].ok
    /\ call.tried[1].content = <<" ">>

\* C12: the n-th backoff sleep of a call lasts 2^(n-1) seconds (1, then 2),
\* one sleep lies between any two consecutive attempts, and none follows the
\* last attempt: a call that raised after DEEPSEEK_RETRY_ATTEMPTS failed
\* attempts has slept DEEPSEEK_RETRY_ATTEMPTS - 1 times.
C12_BackoffBetweenAttempts ==
    /\ \A n \in 1..Len(call.slept) : call.slept[n] = 2 ^ (n - 1)
    /\ call.pc = "request" => Len(call.slept) = Len(call.tried)
    /\ call.pc \in {"sleep", "returned", "raised"}
       => Len(call.slept) = Len(call.tried) - 1
    /\ call.pc = "raised"
       => /\ Len(call.slept) = DEEPSEEK_RETRY_ATTEMPTS - 1
          /\ call.slept = <<1, 2>>

\* all attempts failed: two sleeps, of 1 and of 2 seconds, none after the third
C12_Witness ==
    /\ call.pc = "raised"
    /\ Len(call.tried) = 3
    /\ call.slept = <<1, 2>>
    /\ ~call.tried[3].ok

\* the messages of the chat that are one of the three error texts
ErrorsShown == SelectSeq(sent, LAMBDA m : m.kind \in ErrorTexts)

\* what kind of failure the exception is
FailureKind(e) ==
    CASE e = "Connection error." -> "connection"
      [] e = "Request timed out." -> "timeout"
      [] e = "Error code: 401" -> "credentials"
      [] OTHER -> "other"

\* C21: when call_deepseek raised in handle_description or handle_refinement, the
\* chat shows exactly one error message: the network message when the failure
\* is a timeout or a connection failure, the API message when it is a rejection
\* of the credentials or of the rate, the unknown message for every other
\* failure, the empty response among them.
C21_ErrorClassified ==
    \A u \in Users :
        (/\ Handled(u, "handle_description") \/ Handled(u, "handle_refinement")
         /\ last.path = "call_failed")
        => /\ Len(ErrorsShown) = 1
           /\ ErrorsShown[1].kind =
                 CASE FailureKind(last.error) \in {"timeout", "connection"}
                        -> "MSG_ERROR_NETWORK"
                   [] FailureKind(last.error) \in {"credentials", "quota"}
                        -> "MSG_ERROR_API"
                   [] OTHER -> "MSG_ERROR_UNKNOWN"

\* the failures the except clauses classify as the claim says
C21_ConnectionIsNetwork ==
    /\ last.path = "call_failed"
    /\ last.error = "Connection error."
    /\ ErrorsShown = <<Msg("MSG_ERROR_NETWORK", "none")>>

C21_RejectedKeyIsApi ==
    /\ last.path = "call_failed"
    /\ last.error = "Error code: 401"
    /\ ErrorsShown = <<Msg("MSG_ERROR_API", "none")>>

C21_EmptyResponseIsUnknown ==
    /\ last.path = "call_failed"
    /\ last.error = EmptyResponse
    /\ ErrorsShown = <<Msg("MSG_ERROR_UNKNOWN", "none")>>

\* C17: in each of the four conversation states /cancel is taken by cmd_cancel,
\* and when cmd_cancel has handled it the session is in MainMenu and the chat
\* shows the back-to-menu message with the category menu.
C17_CancelReturnsToMenu ==
    /\ \A s \in ConversationState : Dispatch(s, Command("cancel")) = "cmd_cancel"
    /\ \A u \in Users :
          (last.user = u /\ last.handler = "cmd_cancel")
          => /\ last.pre_state \in ConversationState
             /\ conv_state[u] = MAIN_MENU
             /\ sent = <<CategoryMenu("MSG_CANCEL")>>
             /\ Ready

\* /cancel sent while the bot waited for a refinement text
C17_Witness ==
    \E u \in Users :
        /\ last.user = u
        /\ last.handler = "cmd_cancel"
        /\ last.pre_state = AWAITING_REFINEMENT
        /\ IsSet(user_data[u].last_prompt)

\* /cancel sent in each of the other three states
C17_FromMainMenu == last.handler = "cmd_cancel" /\ last.pre_state = MAIN_MENU
C17_FromAwaitingDescription ==
    last.handler = "cmd_cancel" /\ last.pre_state = AWAITING_DESCRIPTION
C17_FromPromptShown == last.handler = "cmd_cancel" /\ last.pre_state = PROMPT_SHOWN

\* C18: whatever the deletion of the status message does, a handler whose call
\* of the Completion Client returned a text delivers the text, stores it as
\* lastPrompt and leaves the session in PromptShown.
C18_DeletionFailureSwallowed ==
    \A u \in Users :
        (/\ Handled(u, "handle_description") \/ Handled(u, "handle_refinement")
         /\ ClientSucceeded)
        => /\ conv_state[u] = PROMPT_SHOWN
           /\ \E i \in 1..Len(sent) : sent[i] = TextMsg(last.result)
           /\ sent[Len(sent)] = ApproveRefineMenu
           /\ user_data[u].last_prompt = Some(last.result)

\* an update of user v is taken up and handled to its end
HandledAtOnce(v) ==
    \/ cmd_start(v)
    \/ entry_callback(v)
    \/ cmd_help(v)
    \/ cmd_history(v)
    \/ main_menu_text(v)
    \/ category_callback(v)
    \/ help_callback(v)
    \/ back_callback(v)
    \/ approve_callback(v)
    \/ refine_callback(v)
    \/ cmd_cancel(v)

\* the handler of an update of user u is suspended in call_deepseek, in the
\* request or in the backoff sleep
SuspendedInCall(u) ==
    proc.handler # "none" /\ proc.user = u /\ call.pc \in {"request", "sleep"}

\* C19: while the handler of an update of user u is suspended in call_deepseek,
\* an update of another user v can be taken up and handled to its end.
C19_SuspendedCallDoesNotBlock ==
    \A u, v \in Users :
        (SuspendedInCall(u) /\ v # u) => ENABLED HandledAtOnce(v)

\* while no handler is suspended, an update of any user can be taken up
C19_TakenUpWhenReady ==
    Ready => \A v \in Users : ENABLED HandledAtOnce(v)

\* an update of the second user handled after the first user's generation ended
C19_HandledAfterwards ==
    /\ last.user = 2
    /\ last.handler = "cmd_help"
    /\ Ready
    /\ IsSet(user_data[1].last_prompt)

\* C22: a session that an update has brought into AwaitingRefinement was
\* in AwaitingRefinement already, or was in PromptShown and the update was a
\* press of the Refine button; a press in MainMenu or AwaitingDescription
\* leaves the session out of AwaitingRefinement.
C22_RefineOnlyFromPromptShown ==
    \A u \in Users :
        (last.user = u /\ conv_state[u] = AWAITING_REFINEMENT)
        => \/ last.pre_state = AWAITING_REFINEMENT
           \/ last.pre_state = PROMPT_SHOWN /\ last.handler = "refine_callback"

\* the Refine button under a delivered prompt, pressed in PromptShown
C22_RefineInPromptShown ==
    \E u \in Users :
        /\ last.user = u
        /\ last.handler = "refine_callback"
        /\ last.pre_state = PROMPT_SHOWN
        /\ conv_state[u] = AWAITING_REFINEMENT

\* the Refine button of an older message, pressed after Approve or /cancel
\* brought the session back to MainMenu
C22_RefineInMainMenu ==
    \E u \in Users :
        /\ last.user = u
        /\ last.handler = "refine_callback"
        /\ last.pre_state = MAIN_MENU
        /\ IsSet(user_data[u].last_prompt)
        /\ conv_state[u] = AWAITING_REFINEMENT

\* the same button pressed after a new category was chosen
C22_RefineInAwaitingDescription ==
    \E u \in Users :
        /\ last.user = u
        /\ last.handler = "refine_callback"
        /\ last.pre_state = AWAITING_DESCRIPTION
        /\ conv_state[u] = AWAITING_REFINEMENT

\* C23: a session in AwaitingDescription has a stored category, one of image,
\* code, video and text, and handle_description never takes its branch for a
\* missing category.
C23_CategoryStored ==
    \A u \in Users :
        /\ conv_state[u] = AWAITING_DESCRIPTION
           => /\ IsSet(user_data[u].category)
              /\ Get(user_data[u].category) \in Category
        /\ (last.user = u /\ last.handler = "handle_description")
           => last.path # "no_category"

\* after a delivered prompt another category is chosen, then a blank
\* description is sent
C23_Witness ==
    \E u \in Users :
        /\ last.user = u
        /\ last.handler = "handle_description"
        /\ last.path = "empty"
        /\ conv_state[u] = AWAITING_DESCRIPTION
        /\ IsSet(last.pre_data.last_category)
        /\ last.pre_data.category # last.pre_data.last_category

\* a description handled in AwaitingDescription after a generation failed and
\* the category was chosen again
C23_AfterFailure ==
    \E u \in Users :
        /\ last.user = u
        /\ last.handler = "handle_description"
        /\ last.path = "call_failed"
        /\ IsSet(last.pre_data.last_prompt)

\* C24: a session in PromptShown has a lastPrompt, and it is a non-empty text.
C24_PromptStored ==
    \A u \in Users :
        conv_state[u] = PROMPT_SHOWN
        => /\ IsSet(user_data[u].last_prompt)
           /\ Get(user_data[u].last_prompt) # <<>>

\* PromptShown after a refinement that the rate limiter admitted and every
\* attempt of which failed: the prompt is the one delivered before
C24_Witness ==
    \E u \in Users :
        /\ Handled(u, "handle_refinement")
        /\ last.path = "call_failed"
        /\ last.attempts = DEEPSEEK_RETRY_ATTEMPTS
        /\ conv_state[u] = PROMPT_SHOWN
        /\ Get(user_data[u].last_prompt) # <<>>

\* PromptShown after the first generation of a session
C24_FirstPrompt ==
    \E u \in Users :
        /\ Handled(u, "handle_description")
        /\ conv_state[u] = PROMPT_SHOWN
        /\ ~IsSet(last.pre_data.last_prompt)

\* ------------------------------------------------------------------ a run under way
\* A state the bot is in after four generations delivered at time 0, each a
\* category button followed by the description " x" that the API answered at
\* the first attempt (Spec reaches it when MaxGenerations is 4): the
\* categories and answers of the four, in order.
EarlierGenerations ==
    << [category |-> "image", content |-> <<"a", " ">>],
       [category |-> "code", content |-> <<"b">>],
       [category |-> "image", content |-> <<"b">>],
       [category |-> "code", content |-> <<"a", " ">>] >>

EarlierText == <<" ", "x">>

\* the frame call_deepseek returns with when its first request is answered by content
AnsweredAtOnce(category, content) ==
    AfterAttempt(CallStart(category, <<>>, Strip(EarlierText)),
                 [ok |-> TRUE, content |-> content, error |-> ""])

\* user_data after the first n of the earlier generations
RECURSIVE DataAfter(_)
DataAfter(n) ==
    IF n = 0 THEN EmptyUserData
    ELSE LET g == EarlierGenerations[n]
         IN  DescriptionData([DataAfter(n - 1) EXCEPT !.category = Some(g.category)],
                             [handler |-> "handle_description", user |-> 1,
                              user_text |-> Strip(EarlierText),
                              category_value |-> g.category],
                             AnsweredAtOnce(g.category, g.content), "ok")

InitUnderWay ==
    LET n == Len(EarlierGenerations)
        g == EarlierGenerations[n]
    IN  /\ conv_state = [u \in Users |-> IF u = 1 THEN PROMPT_SHOWN ELSE NoConversation]
        /\ user_data = [u \in Users |-> IF u = 1 THEN DataAfter(n) ELSE EmptyUserData]
        /\ timestamps = [u \in Users |-> IF u = 1 THEN [i \in 1..n |-> 0] ELSE <<>>]
        /\ now = 0
        /\ proc = Idle
        /\ call = CallIdle
        /\ sent = SuccessMessages(Strip(g.content), "ok")
        /\ last = [user |-> 1, handler |-> "handle_description", path |-> "success",
                   text |-> EarlierText, pre_state |-> AWAITING_DESCRIPTION,
                   pre_data |-> [DataAfter(n - 1) EXCEPT !.category = Some(g.category)],
                   allowed |-> "yes", attempts |-> 1, result |-> Strip(g.content),
                   error |-> ""]
        /\ generated = [u \in Users |-> IF u = 1 THEN DataAfter(n).history ELSE <<>>]
        /\ quota = [u \in Users |-> MaxGenerations]
        /\ probe = [calls |-> <<>>, advances |-> 0]
        /\ chunked = NoChunking

\* the bot from its start, and from the run under way
SpecHistory == (Init \/ InitUnderWay) /\ [][Next]_vars

\* C5: a user's history holds at most 5 entries and is the most recent (up to 5)
\* generations delivered to the user, in the order they were delivered.
C5_HistoryIsLastFive ==
    \A u \in Users :
        /\ Len(user_data[u].history) <= 5
        /\ user_data[u].history = LastN(generated[u], 5)

\* the sixth generation has been delivered: the oldest entry has been dropped
C5_Witness ==
    \E u \in Users :
        /\ Len(generated[u]) = 6
        /\ generated[u][1] # generated[u][2]
        /\ Handled(u, "handle_description")
        /\ last.path = "success"
        /\ Len(last.pre_data.history) = 5

\* ------------------------------------------------------------------ the rate limiter alone
\* a rate limiter keeping one list of timestamps for all users
is_allowed_call_SharedWindow(u) ==
    LET admission == is_allowed(timestamps[1], now, RATE_LIMIT_REQUESTS_PER_MINUTE)
    IN  /\ Len(probe.calls) < MaxAsked
        /\ timestamps' = [v \in Users |-> admission.timestamps]
        /\ probe' = [probe EXCEPT !.calls =
                        Append(@, [user |-> u, at |-> now, allowed |-> admission.allowed,
                                   before |-> timestamps[u],
                                   after |-> admission.timestamps])]
        /\ UNCHANGED <<conv_state, user_data, now, proc, call, sent, last, generated, quota, chunked>>

\* rate_limiter.is_allowed(u) called directly at the current time
is_allowed_call(u) ==
    LET admission == is_allowed(timestamps[u], now, RATE_LIMIT_REQUESTS_PER_MINUTE)
    IN  /\ Len(probe.calls) < MaxAsked
        /\ timestamps' = [timestamps EXCEPT ![u] = admission.timestamps]
        /\ probe' = [probe EXCEPT !.calls =
                        Append(@, [user |-> u, at |-> now, allowed |-> admission.allowed,
                                   before |-> timestamps[u],
                                   after |-> admission.timestamps])]
        /\ UNCHANGED <<conv_state, user_data, now, proc, call, sent, last, generated, quota, chunked>>

\* time.monotonic() moves on between two calls
clock_advance ==
    \E d \in AdvanceSteps :
        /\ probe.advances < MaxAdvances
        /\ now' = now + d
        /\ probe' = [probe EXCEPT !.advances = @ + 1]
        /\ UNCHANGED <<conv_state, user_data, timestamps, proc, call, sent, last,
                       generated, quota, chunked>>

NextRateLimiter ==
    \/ \E u \in Users : is_allowed_call(u)
    \/ clock_advance

SpecRateLimiter == Init /\ [][NextRateLimiter]_vars

\* the direct calls of is_allowed made for user u, in order
CallsOf(u) == SelectSeq(probe.calls, LAMBDA c : c.user = u)

\* C8: with limit 5, the first five calls of a user, made within one second, are
\* all allowed; a further call within the same minute is rejected and records no
\* timestamp; a call made when 61 seconds or more have passed since every call
\* allowed before it is allowed, whatever was rejected in between.
C8_FiveThenLockout ==
    \A u \in Users :
        LET cs == CallsOf(u)
        IN  /\ \A i \in 1..Len(cs) :
                 (i <= 5 /\ cs[i].at - cs[1].at <= 1) => cs[i].allowed
            /\ \A i \in 1..Len(cs) :
                 (i > 5 /\ cs[5].at - cs[1].at <= 1 /\ cs[i].at - cs[1].at < 60)
                 => /\ ~cs[i].allowed
                    /\ cs[i].after = cs[i].before
            /\ \A i \in 1..Len(cs) :
                 (\A j \in 1..(i - 1) : cs[j].allowed => cs[i].at - cs[j].at >= 61)
                 => cs[i].allowed

\* five calls within one second, a sixth in the same minute, a seventh 61 seconds
\* after the sixth
C8_Witness ==
    \E u \in Users :
        LET cs == CallsOf(u)
        IN  /\ Len(cs) = 7
            /\ cs[5].at - cs[1].at = 1
            /\ cs[5].allowed
            /\ cs[6].at - cs[1].at = 59
            /\ ~cs[6].allowed
            /\ cs[7].at - cs[6].at = 61
            /\ cs[7].allowed

\* C9: after every call of is_allowed the user's timestamps number at most
\* max_per_minute and none is older than 60 seconds at the time of the call.
C9_WindowBounded ==
    /\ \A i \in 1..Len(probe.calls) :
          LET c == probe.calls[i]
          IN  /\ Len(c.after) <= RATE_LIMIT_REQUESTS_PER_MINUTE
              /\ \A k \in 1..Len(c.after) : c.at - c.after[k] <= 60
    /\ \A u \in Users :
          CallsOf(u) # <<>> => timestamps[u] = CallsOf(u)[Len(CallsOf(u))].after

\* a call that found five timestamps, some of them older than 60 seconds
C9_Witness ==
    \E i \in 1..Len(probe.calls) :
        LET c == probe.calls[i]
        IN  /\ Len(c.before) = RATE_LIMIT_REQUESTS_PER_MINUTE
            /\ c.at - c.before[1] > 60
            /\ c.at - c.before[5] < 60
            /\ c.allowed

\* what is_allowed answers, and the timestamps it leaves, to the calls cs made
\* one after the other on a limiter that starts with the timestamps ts and that
\* nobody else calls
RECURSIVE Alone(_, _)
Alone(ts, cs) ==
    IF cs = <<>> THEN <<>>
    ELSE LET a == is_allowed(ts, Head(cs).at, RATE_LIMIT_REQUESTS_PER_MINUTE)
         IN  <<a>> \o Alone(a.timestamps, Tail(cs))

\* C20: every call of is_allowed(u) finds u's timestamps as u's previous call left
\* them, whatever calls other users made in between, and answers and leaves
\* behind what it would if u were the only user calling.
C20_PerUserWindows ==
    \A u \in Users :
        LET cs == CallsOf(u)
            alone == Alone(<<>>, cs)
        IN  /\ \A i \in 1..Len(cs) :
                 /\ cs[i].before = (IF i = 1 THEN <<>> ELSE cs[i - 1].after)
                 /\ cs[i].allowed = alone[i].allowed
                 /\ cs[i].after = alone[i].timestamps
            /\ timestamps[u] = (IF cs = <<>> THEN <<>> ELSE cs[Len(cs)].after)

\* user 1 has used up the limit and is rejected; user 2, calling after that at
\* the same time, is allowed
C20_Witness ==
    \E j, k \in 1..Len(probe.calls) :
        /\ j < k
        /\ probe.calls[j].user = 1
        /\ ~probe.calls[j].allowed
        /\ probe.calls[k].user = 2
        /\ probe.calls[k].allowed
        /\ probe.calls[k].at = probe.calls[j].at

\* the calls of two users interleaved: 2, 1, 2, 1
C20_Interleaved ==
    /\ Len(probe.calls) >= 4
    /\ probe.calls[1].user = 2
    /\ probe.calls[2].user = 1
    /\ probe.calls[3].user = 2
    /\ probe.calls[4].user = 1
    /\ probe.calls[4].at > probe.calls[1].at + 60

\* the calls of is_allowed that user u was admitted at, in order
Admitted(u) == SelectSeq(CallsOf(u), LAMBDA c : c.allowed)

\* C25: of the admitted calls of a user, any max_per_minute + 1 in a row span
\* at least 60 seconds, and no interval (t - 60, t] holds more than
\* max_per_minute of them. The intervals taken are those that end at an
\* admission: an interval ending at another time t holds no admission that the
\* one ending at the last admission up to t does not hold.
C25_AdmissionsSpread ==
    \A u \in Users :
        LET a == Admitted(u)
        IN  /\ \A i \in 1..(Len(a) - RATE_LIMIT_REQUESTS_PER_MINUTE) :
                 a[i + RATE_LIMIT_REQUESTS_PER_MINUTE].at - a[i].at >= RATE_WINDOW_SECONDS
            /\ \A j \in 1..Len(a) :
                 LET t == a[j].at
                 IN  Cardinality({i \in 1..Len(a) :
                                     t - RATE_WINDOW_SECONDS < a[i].at /\ a[i].at <= t})
                       <= RATE_LIMIT_REQUESTS_PER_MINUTE

\* six admitted calls of one user spanning exactly 60 seconds: one at time 0,
\* four at time 1, the sixth at time 60
C25_Witness ==
    \E u \in Users :
        LET a == Admitted(u)
        IN  /\ Len(a) = RATE_LIMIT_REQUESTS_PER_MINUTE + 1
            /\ a[2].at > a[1].at
            /\ a[6].at - a[1].at = RATE_WINDOW_SECONDS
            /\ a[6].at - a[2].at < RATE_WINDOW_SECONDS

\* a call rejected 59 seconds after the first of five admitted calls, and the
\* sixth admission later than 60 seconds after the first
C25_RejectedInBetween ==
    \E u \in Users :
        LET cs == CallsOf(u)
        IN  /\ Len(cs) = 7
            /\ Len(Admitted(u)) = 6
            /\ ~cs[6].allowed
            /\ cs[7].at - cs[1].at > RATE_WINDOW_SECONDS

\* ------------------------------------------------------------------ the chunker alone
\* the texts split_into_chunks is given directly
ChunkTexts == UNION {[1..n -> ChunkAlphabet] : n \in 0..MaxTextLen}

InitChunks ==
    /\ conv_state = [u \in Users |-> NoConversation]
    /\ user_data = [u \in Users |-> EmptyUserData]
    /\ timestamps = [u \in Users |-> <<>>]
    /\ now = 0
    /\ proc = Idle
    /\ call = CallIdle
    /\ sent = <<>>
    /\ last = NoUpdate
    /\ generated = [u \in Users |-> <<>>]
    /\ quota = [u \in Users |-> MaxGenerations]
    /\ probe = [calls |-> <<>>, advances |-> 0]
    /\ chunked \in [text : ChunkTexts, max_length : 1..MaxLimit, chunks : {<<>>},
                    pc : {"call"}]

\* split_into_chunks(text, max_length) called directly
split_into_chunks_call ==
    /\ chunked.pc = "call"
    /\ chunked' = [chunked EXCEPT !.chunks = split_into_chunks(chunked.text,
                                                               chunked.max_length),
                                  !.pc = "done"]
    /\ UNCHANGED <<conv_state, user_data, timestamps, now, proc, call, sent, last,
                   generated, quota, probe>>

NextChunks == split_into_chunks_call

SpecChunks == InitChunks /\ [][NextChunks]_vars

\* s without its whitespace
NoSpace(s) == SelectSeq(s, LAMBDA c : c \notin Whitespace)

RECURSIVE Flatten(_)
Flatten(ss) == IF ss = <<>> THEN <<>> ELSE Head(ss) \o Flatten(Tail(ss))

\* the positions of s where a whitespace-delimited token starts
TokenStarts(s) ==
    {i \in 1..Len(s) : s[i] \notin Whitespace /\ (i = 1 \/ s[i - 1] \in Whitespace)}

\* the position where the token that starts at i ends
TokenEnd(s, i) ==
    CHOOSE j \in i..Len(s) :
        /\ \A k \in i..j : s[k] \notin Whitespace
        /\ j = Len(s) \/ s[j + 1] \in Whitespace

\* the whitespace-delimited tokens of s, in order
Tokens(s) ==
    LET starts == TokenStarts(s)
        nth(n) == CHOOSE i \in starts : Cardinality({j \in starts : j < i}) = n - 1
    IN  [n \in 1..Cardinality(starts) |-> SubSeq(s, nth(n), TokenEnd(s, nth(n)))]

\* token t cut every L characters: ceil(Len(t) / L) pieces
TokenPieces(t, L) ==
    [k \in 1..((Len(t) + L - 1) \div L) |->
        [text |-> SubSeq(t, (k - 1) * L + 1, IF k * L < Len(t) THEN k * L ELSE Len(t)),
         whole |-> FALSE]]

\* the tokens as the chunks must hold them: a token of at most L characters
\* whole, a longer one in its pieces
RECURSIVE PiecesOf(_, _)
PiecesOf(tokens, L) ==
    IF tokens = <<>> THEN <<>>
    ELSE (IF Len(Head(tokens)) <= L
          THEN <<[text |-> Head(tokens), whole |-> TRUE]>>
          ELSE TokenPieces(Head(tokens), L)) \o PiecesOf(Tail(tokens), L)

\* the tokens of the chunks, chunk after chunk
ChunkTokens(cs) == Flatten([k \in 1..Len(cs) |-> Tokens(cs[k])])

\* how many tokens the chunks before the k-th hold
TokensBefore(cs, k) == Len(ChunkTokens(SubSeq(cs, 1, k - 1)))

\* the chunks hold the tokens of T in order, one by one, each token of at most
\* L characters whole and each longer one as its pieces
HoldsTokens(T, L, cs) ==
    LET pieces == PiecesOf(Tokens(T), L)
    IN  ChunkTokens(cs) = [q \in 1..Len(pieces) |-> pieces[q].text]

\* the tokens of chunk c are separated by exactly one space
SingleSpaced(c) ==
    \A i \in 1..Len(c) :
        (/\ c[i] \in Whitespace
         /\ \E j \in 1..(i - 1) : c[j] \notin Whitespace
         /\ \E j \in (i + 1)..Len(c) : c[j] \notin Whitespace)
        => /\ c[i] = " "
           /\ c[i - 1] \notin Whitespace
           /\ c[i + 1] \notin Whitespace

\* the direct call has returned
Chunked == chunked.pc = "done"

\* C13: every chunk split_into_chunks(T, L) returns has at most L characters;
\* the empty text gives no chunk; a non-empty text of at most L characters is
\* returned as the single chunk T.
C13_ChunksWithinLimit ==
    Chunked
    => /\ \A k \in 1..Len(chunked.chunks) : Len(chunked.chunks[k]) <= chunked.max_length
       /\ chunked.text = <<>> => chunked.chunks = <<>>
       /\ (chunked.text # <<>> /\ Len(chunked.text) <= chunked.max_length)
          => chunked.chunks = <<chunked.text>>

\* a text of two lines, the first filled to the limit with two tokens
C13_Witness ==
    /\ Chunked
    /\ Len(chunked.text) > chunked.max_length
    /\ Len(chunked.chunks) = 2
    /\ Len(chunked.chunks[1]) = chunked.max_length
    /\ Len(Tokens(chunked.chunks[1])) = 2
\* C14 as stated: for every T and L, the chunks without their whitespace, one
\* after the other, are T without its whitespace; every token of T of at most L
\* characters is whole in one chunk, the tokens in the order of T, none lost and
\* none twice; and the tokens of every chunk are separated by exactly one space.
C14_TokensKeptSingleSpaced ==
    Chunked
    => /\ NoSpace(Flatten(chunked.chunks)) = NoSpace(chunked.text)
       /\ HoldsTokens(chunked.text, chunked.max_length, chunked.chunks)
       /\ \A k \in 1..Len(chunked.chunks) : SingleSpaced(chunked.chunks[k])

\* C14 as amended: nothing is lost, repeated or reordered, for every T and L; the
\* tokens of a chunk are separated by exactly one space, and no chunk begins or
\* ends with whitespace, when T is longer than L; a non-empty T of at most L
\* characters is the single chunk, with its whitespace as it is.
C14_TokensKept ==
    Chunked
    => /\ NoSpace(Flatten(chunked.chunks)) = NoSpace(chunked.text)
       /\ HoldsTokens(chunked.text, chunked.max_length, chunked.chunks)
       /\ Len(chunked.text) > chunked.max_length
          => \A k \in 1..Len(chunked.chunks) :
                /\ SingleSpaced(chunked.chunks[k])
                /\ chunked.chunks[k] # <<>>
                /\ chunked.chunks[k][1] \notin Whitespace
                /\ chunked.chunks[k][Len(chunked.chunks[k])] \notin Whitespace
       /\ (chunked.text # <<>> /\ Len(chunked.text) <= chunked.max_length)
          => chunked.chunks = <<chunked.text>>

\* a text longer than L whose tokens are not separated by single spaces, packed
\* into lines of which one holds two tokens
C14_Witness ==
    /\ Chunked
    /\ Len(chunked.text) > chunked.max_length
    /\ ~SingleSpaced(chunked.text)
    /\ Len(chunked.chunks) = 2
    /\ Len(Tokens(chunked.chunks[1])) = 2
    /\ Tokens(chunked.chunks[1])[1] # Tokens(chunked.chunks[1])[2]

\* a text of at most L characters with a newline between its tokens
C14_ShortTextKeepsWhitespace ==
    /\ Chunked
    /\ Len(chunked.text) <= chunked.max_length
    /\ Len(Tokens(chunked.text)) = 2
    /\ ~SingleSpaced(chunked.text)
\* the first token of the k-th chunk, as T holds it
FirstPiece(T, L, cs, k) == PiecesOf(Tokens(T), L)[TokensBefore(cs, k) + 1]

\* C15: when T is longer than L, a line is flushed only when the next token would
\* make it longer than L: of two adjacent chunks made of whole tokens, the earlier
\* one joined by a space with the first token of the later one is longer than L.
C15_GreedyPacking ==
    (/\ Chunked
     /\ Len(chunked.text) > chunked.max_length
     /\ HoldsTokens(chunked.text, chunked.max_length, chunked.chunks))
    => \A k \in 1..(Len(chunked.chunks) - 1) :
          LET this == FirstPiece(chunked.text, chunked.max_length, chunked.chunks, k)
              next == FirstPiece(chunked.text, chunked.max_length, chunked.chunks, k + 1)
          IN  (this.whole /\ next.whole)
              => Len(chunked.chunks[k]) + 1 + Len(next.text) > chunked.max_length
\* ceil(n / L)
Ceil(n, L) == CHOOSE m \in 0..n : m * L >= n /\ (m - 1) * L < n

\* C16: a token longer than L is in the chunks as ceil(Len(token) / L) chunks of
\* their own, one after the other, each of at most L characters, which put
\* together are the token; no such chunk holds anything of a neighbouring token.
C16_LongTokenSlicedAlone ==
    Chunked
    => LET T == chunked.text
           L == chunked.max_length
           cs == chunked.chunks
           pieces == PiecesOf(Tokens(T), L)
       IN  /\ HoldsTokens(T, L, cs)
           /\ \A q \in 1..Len(pieces) :
                 ~pieces[q].whole
                 => \E k \in 1..Len(cs) :
                       /\ TokensBefore(cs, k) = q - 1
                       /\ cs[k] = pieces[q].text
                       /\ Len(cs[k]) <= L
           /\ \A i \in 1..Len(Tokens(T)) :
                 Len(Tokens(T)[i]) > L
                 => LET slices == TokenPieces(Tokens(T)[i], L)
                    IN  /\ Len(slices) = Ceil(Len(Tokens(T)[i]), L)
                        /\ Flatten([k \in 1..Len(slices) |-> slices[k].text])
                             = Tokens(T)[i]

\* a token longer than L whose last slice would fit on a line with the token
\* that follows it
C16_Witness ==
    /\ Chunked
    /\ LET pieces == PiecesOf(Tokens(chunked.text), chunked.max_length)
       IN  \E q \in 2..(Len(pieces) - 1) :
              /\ ~pieces[q].whole
              /\ ~pieces[q - 1].whole
              /\ pieces[q + 1].whole
              /\ Len(pieces[q].text) + 1 + Len(pieces[q + 1].text) <= chunked.max_length
    /\ Len(chunked.chunks) = 3
====
